---- MODULE Spec2Model ----
(***************************************************************************)
(* Model of res/trilium_handler.js, the custom request handler that lets   *)
(* the Python client drive the Trilium backend script API.  One run of the *)
(* script handles one request: token check, target object selection,       *)
(* reflective member read / call, JSON serialisation and the response.     *)
(***************************************************************************)
EXTENDS Integers, Sequences, FiniteSets, TLC

(***************************************************************************)
(* Bounds of the model.                                                    *)
(***************************************************************************)
\* Largest number of nodes (leaves, objects, arrays) of a value the host
\* returns or holds in a property.
MaxNodes == 3

(***************************************************************************)
(* JavaScript values.  Every value is a record [t, a, kids]: t the type    *)
(* tag, a the atom (a string's text, a number's literal, a host object's   *)
(* kind, an error's name), kids the own enumerable properties in insertion *)
(* order (an array's elements under the keys "0", "1", ...).               *)
(***************************************************************************)
Null == [t |-> "null", a |-> "", kids |-> <<>>]

Undefined == [t |-> "undefined", a |-> "", kids |-> <<>>]

Str(s) == [t |-> "string", a |-> s, kids |-> <<>>]

Num(s) == [t |-> "number", a |-> s, kids |-> <<>>]

Fn(name) == [t |-> "function", a |-> name, kids |-> <<>>]

Obj(members) == [t |-> "object", a |-> "", kids |-> members]

Arr(elems) ==
    [t |-> "array", a |-> "",
     kids |-> [i \in 1..Len(elems) |-> [k |-> ToString(i - 1), v |-> elems[i]]]]

ErrorObj(name, message) ==
    [t |-> "error", a |-> name, kids |-> <<[k |-> "message", v |-> Str(message)]>>]

\* Host objects: the script API, its sql member, and the entities the
\* lookups return.
Api == [t |-> "host", a |-> "api", kids |-> <<>>]

ApiSql == [t |-> "host", a |-> "sql", kids |-> <<>>]

Entity(kind, id) == [t |-> "host", a |-> kind, kids |-> <<[k |-> "id", v |-> id]>>]

\* typeof x == 'function'
IsFunction(x) == x.t = "function"

\* String(x), and the string conversion of the + operator, for the values
\* the handler applies them to.
String(x) ==
    CASE x.t = "string" -> x.a
      [] x.t = "number" -> x.a
      [] x.t = "null" -> "null"
      [] x.t = "undefined" -> "undefined"
      [] x.t = "error" -> x.a \o ": " \o x.kids[1].v.a
      [] OTHER -> "[object Object]"

(***************************************************************************)
(* The values of the model.                                                *)
(***************************************************************************)
Keys == {"title", "children", "parents"}

Leaves == {Null, Undefined, Str("A")}

\* The member lists over a sequence of values: every assignment of distinct
\* keys, in every order.
KeySeqs(n) == {ks \in [1..n -> Keys] : \A i, j \in 1..n : i # j => ks[i] # ks[j]}

RECURSIVE ValuesOfSize(_), ForestsOfSize(_)
ValuesOfSize(n) ==
    IF n = 1
    THEN Leaves \cup {Obj(<<>>), Arr(<<>>)}
    ELSE UNION {
            {Arr(f)} \cup
            {Obj([i \in 1..Len(f) |-> [k |-> ks[i], v |-> f[i]]]) : ks \in KeySeqs(Len(f))}
            : f \in ForestsOfSize(n - 1)}

ForestsOfSize(m) ==
    IF m = 0
    THEN {<<>>}
    ELSE UNION {{<<v>> \o f : v \in ValuesOfSize(k), f \in ForestsOfSize(m - k)} : k \in 1..m}

Values == UNION {ValuesOfSize(n) : n \in 1..MaxNodes}

\* What a called member may throw: an Error object or a bare string.
Thrown == {ErrorObj("TypeError", "x is not a function"), Str("boom")}

(***************************************************************************)
(* JSON.stringify(value, replacer).  A JSON text is the sequence of its    *)
(* tokens; the empty sequence stands for the result undefined.             *)
(***************************************************************************)
Quote(s) == "\"" \o s \o "\""

\* Faulty variants of replacer: a forgotten key, and a condition that is
\* always true.
replacerOnlyChildren(key, value) ==
    IF key = "children" THEN Undefined ELSE value

replacerAlways(key, value) ==
    IF key = "children" \/ TRUE THEN Undefined ELSE value

replacer(key, value) ==
    IF key = "children" \/ key = "parents" THEN Undefined ELSE value

RECURSIVE SerializeJSONProperty(_, _, _)
RECURSIVE SerializeMembers(_, _, _, _)
RECURSIVE SerializeElements(_, _, _)

\* The members of an object from the i-th on; first: no member was written yet.
SerializeMembers(kids, i, first, filtered) ==
    IF i > Len(kids)
    THEN <<>>
    ELSE LET strP == SerializeJSONProperty(kids[i].k, kids[i].v, filtered)
         IN  IF strP = <<>>
             THEN SerializeMembers(kids, i + 1, first, filtered)
             ELSE (IF first THEN <<>> ELSE <<",">>)
                  \o <<Quote(kids[i].k), ":">> \o strP
                  \o SerializeMembers(kids, i + 1, FALSE, filtered)

\* The elements of an array from the i-th on; undefined is written as null.
SerializeElements(kids, i, filtered) ==
    IF i > Len(kids)
    THEN <<>>
    ELSE LET strP == SerializeJSONProperty(kids[i].k, kids[i].v, filtered)
         IN  (IF i = 1 THEN <<>> ELSE <<",">>)
             \o (IF strP = <<>> THEN <<"null">> ELSE strP)
             \o SerializeElements(kids, i + 1, filtered)

\* filtered: the call passes replacer.
SerializeJSONProperty(key, value, filtered) ==
    LET v == IF filtered THEN replacer(key, value) ELSE value
    IN  CASE v.t = "null" -> <<"null">>
          [] v.t = "string" -> <<Quote(v.a)>>
          [] v.t = "number" -> <<v.a>>
          [] v.t = "array" -> <<"[">> \o SerializeElements(v.kids, 1, filtered) \o <<"]">>
          [] v.t = "object" ->
                <<"{">> \o SerializeMembers(v.kids, 1, TRUE, filtered) \o <<"}">>
          [] OTHER -> <<>>

JSON_stringify(value, filtered) == SerializeJSONProperty("", value, filtered)

\* 'text' + JSON.stringify(...): undefined is concatenated as "undefined".
Concat(json) == IF json = <<>> THEN <<"undefined">> ELSE json

(***************************************************************************)
(* The requests and the host.                                              *)
(***************************************************************************)
\* api.currentNote.getLabel("pythonClientToken").value
LabelValue == Str("secret")

Tokens == {LabelValue, Str("wrong"), Undefined}

ObjTypes == {Str("note"), Str("branch"), Str("attribute"), Str("sql"), Str("other"), Undefined}

ObjIds == {Str("N1"), Undefined}

MethodNames == {"getTitle", "title"}

ArgLists == {Arr(<<>>), Arr(<<Str("A"), Num("1")>>), Undefined}

\* req.body
Bodies ==
    [pythonClientToken : Tokens, objtype : ObjTypes, objid : ObjIds,
     methodName : MethodNames, args : ArgLists]

\* What a lookup of the host returns for an id: the entity, or nothing.
LookupResults(kind, id) == {Entity(kind, id), Null, Undefined}

\* What the host holds under a member name: nothing (undefined), a value, or
\* a function.
Members(name) == Values \cup {Fn(name)}

\* The elements of an array, as an argument list.
ListFromArrayLike(a) == [i \in 1..Len(a.kids) |-> a.kids[i].v]

\* Reflect.apply(fn, receiver, args) as the host sees it, with how it ended:
\* threw tells whether outcome was returned or thrown.
Call(fn, receiver, args, threw, outcome) ==
    [fn |-> fn, receiver |-> receiver, args |-> ListFromArrayLike(args),
     threw |-> threw, outcome |-> outcome]

\* res.send(code): a bare status code, the handler passes no body.
ResSend(code) == [status |-> code, body |-> <<>>]

\* res.status(code).send(body)
ResStatusSend(code, body) == [status |-> code, body |-> body]

(***************************************************************************)
(* State.  pc is the line the script is at; req, obj, ret and caught are   *)
(* its variables; member is obj[methodName] as the host holds it.  The     *)
(* rest is what the run did to its collaborators: log the api.log sink,    *)
(* lookups the getNote/getBranch/getAttribute calls, calls the member      *)
(* calls, stringified the number of JSON.stringify(ret, replacer) calls,   *)
(* sent the responses, uncaught the exception that left the script, and    *)
(* trace the order of all of these.                                        *)
(***************************************************************************)
VARIABLES pc, req, obj, member, ret, caught, log, lookups, calls, stringified,
          sent, uncaught, trace

vars == <<pc, req, obj, member, ret, caught, log, lookups, calls, stringified,
          sent, uncaught, trace>>

Init ==
    /\ pc = "L6"
    /\ req \in Bodies
    /\ obj = Undefined
    /\ member = Undefined
    /\ ret = Undefined
    /\ caught = Undefined
    /\ log = <<>>
    /\ lookups = <<>>
    /\ calls = <<>>
    /\ stringified = 0
    /\ sent = <<>>
    /\ uncaught = Undefined
    /\ trace = <<>>

\* Lines 6-9 without the return: the script goes on after the 401.
AuthGateNoReturn ==
    /\ pc = "L6"
    /\ IF req.pythonClientToken # LabelValue
       THEN /\ sent' = Append(sent, ResSend(401))
            /\ trace' = trace \o <<"auth", "send">>
       ELSE /\ trace' = Append(trace, "auth")
            /\ UNCHANGED sent
    /\ pc' = "L11"
    /\ UNCHANGED <<req, obj, member, ret, caught, log, lookups, calls, stringified, uncaught>>

\* Lines 6-9: the token check.
AuthGate ==
    /\ pc = "L6"
    /\ IF req.pythonClientToken # LabelValue
       THEN /\ sent' = Append(sent, ResSend(401))
            /\ trace' = trace \o <<"auth", "send">>
            /\ pc' = "returned"
       ELSE /\ trace' = Append(trace, "auth")
            /\ pc' = "L11"
            /\ UNCHANGED sent
    /\ UNCHANGED <<req, obj, member, ret, caught, log, lookups, calls, stringified, uncaught>>

\* Line 11: api.log('Executing ...').
LogExecuting ==
    /\ pc = "L11"
    /\ log' = Append(log,
            <<"Executing ", String(req.objtype), "(", String(req.objid), ").",
              req.methodName, "(">>
            \o Concat(JSON_stringify(req.args, FALSE)) \o <<")">>)
    /\ trace' = Append(trace, "logExecuting")
    /\ pc' = "L14"
    /\ UNCHANGED <<req, obj, member, ret, caught, lookups, calls, stringified, sent, uncaught>>

\* Lines 14-23 with the branch lookup sent to getNote.
ResolveBranchAsNote ==
    /\ pc = "L14"
    /\ IF req.objtype \in {Str("note"), Str("branch")}
       THEN /\ obj' \in LookupResults("note", req.objid)
            /\ lookups' = Append(lookups, [fn |-> "getNote", id |-> req.objid])
       ELSE IF req.objtype = Str("attribute")
       THEN /\ obj' \in LookupResults("attribute", req.objid)
            /\ lookups' = Append(lookups, [fn |-> "getAttribute", id |-> req.objid])
       ELSE /\ obj' = IF req.objtype = Str("sql") THEN ApiSql ELSE Api
            /\ UNCHANGED lookups
    /\ trace' = Append(trace, "resolve")
    /\ pc' = "L25"
    /\ UNCHANGED <<req, member, ret, caught, log, calls, stringified, sent, uncaught>>

\* Lines 14-23: the target object.
Resolve ==
    /\ pc = "L14"
    /\ IF req.objtype = Str("note")
       THEN /\ obj' \in LookupResults("note", req.objid)
            /\ lookups' = Append(lookups, [fn |-> "getNote", id |-> req.objid])
       ELSE IF req.objtype = Str("branch")
       THEN /\ obj' \in LookupResults("branch", req.objid)
            /\ lookups' = Append(lookups, [fn |-> "getBranch", id |-> req.objid])
       ELSE IF req.objtype = Str("attribute")
       THEN /\ obj' \in LookupResults("attribute", req.objid)
            /\ lookups' = Append(lookups, [fn |-> "getAttribute", id |-> req.objid])
       ELSE IF req.objtype = Str("sql")
       THEN /\ obj' = ApiSql
            /\ UNCHANGED lookups
       ELSE /\ obj' = Api
            /\ UNCHANGED lookups
    /\ trace' = Append(trace, "resolve")
    /\ pc' = "L25"
    /\ UNCHANGED <<req, member, ret, caught, log, calls, stringified, sent, uncaught>>

\* Line 25: var ret = obj[methodName], outside the try block.  Reading a
\* member of null or undefined throws a TypeError that nothing catches.
ReadMember ==
    /\ pc = "L25"
    /\ IF obj \in {Null, Undefined}
       THEN /\ uncaught' = ErrorObj("TypeError", "Cannot read properties of " \o String(obj))
            /\ trace' = Append(trace, "throw")
            /\ pc' = "uncaught"
            /\ UNCHANGED <<member, ret>>
       ELSE /\ member' \in Members(req.methodName)
            /\ ret' = member'
            /\ trace' = Append(trace, "read")
            /\ pc' = "L27"
            /\ UNCHANGED uncaught
    /\ UNCHANGED <<req, obj, caught, log, lookups, calls, stringified, sent>>

\* Lines 26-30 with api as the receiver of the call.
InvokeOnApi ==
    /\ pc = "L27"
    /\ IF IsFunction(member)
       THEN IF req.args.t # "array"
            THEN /\ caught' = ErrorObj("TypeError", "CreateListFromArrayLike called on non-object")
                 /\ trace' = Append(trace, "throw")
                 /\ pc' = "L32"
                 /\ UNCHANGED <<ret, calls>>
            ELSE \/ /\ ret' \in Values
                    /\ calls' = Append(calls, Call(member, Api, req.args, FALSE, ret'))
                    /\ trace' = Append(trace, "call")
                    /\ pc' = "L45"
                    /\ UNCHANGED caught
                 \/ /\ caught' \in Thrown
                    /\ calls' = Append(calls, Call(member, Api, req.args, TRUE, caught'))
                    /\ trace' = trace \o <<"call", "throw">>
                    /\ pc' = "L32"
                    /\ UNCHANGED ret
       ELSE /\ pc' = "L45"
            /\ UNCHANGED <<ret, caught, calls, trace>>
    /\ UNCHANGED <<req, obj, member, log, lookups, stringified, sent, uncaught>>

\* Lines 26-30: the call of a function member, inside the try block.
\* Reflect.apply throws a TypeError, before it calls, when args is no
\* array; the called member returns a value or throws.
Invoke ==
    /\ pc = "L27"
    /\ IF IsFunction(member)
       THEN IF req.args.t # "array"
            THEN /\ caught' = ErrorObj("TypeError", "CreateListFromArrayLike called on non-object")
                 /\ trace' = Append(trace, "throw")
                 /\ pc' = "L32"
                 /\ UNCHANGED <<ret, calls>>
            ELSE \/ /\ ret' \in Values
                    /\ calls' = Append(calls, Call(member, obj, req.args, FALSE, ret'))
                    /\ trace' = Append(trace, "call")
                    /\ pc' = "L45"
                    /\ UNCHANGED caught
                 \/ /\ caught' \in Thrown
                    /\ calls' = Append(calls, Call(member, obj, req.args, TRUE, caught'))
                    /\ trace' = trace \o <<"call", "throw">>
                    /\ pc' = "L32"
                    /\ UNCHANGED ret
       ELSE /\ pc' = "L45"
            /\ UNCHANGED <<ret, caught, calls, trace>>
    /\ UNCHANGED <<req, obj, member, log, lookups, stringified, sent, uncaught>>

\* Lines 31-35 with the error serialised as JSON for the body.
CatchStringify ==
    /\ pc = "L32"
    /\ log' = Append(log, <<String(caught)>>)
    /\ stringified' = stringified + 1
    /\ sent' = Append(sent, ResStatusSend(500, JSON_stringify(caught, TRUE)))
    /\ trace' = trace \o <<"logError", "stringify", "send">>
    /\ pc' = "returned"
    /\ UNCHANGED <<req, obj, member, ret, caught, lookups, calls, uncaught>>

\* Lines 31-35 with the response sent before the error is logged.
CatchSendFirst ==
    /\ pc = "L32"
    /\ log' = Append(log, <<String(caught)>>)
    /\ sent' = Append(sent, ResStatusSend(500, <<String(caught)>>))
    /\ trace' = trace \o <<"send", "logError">>
    /\ pc' = "returned"
    /\ UNCHANGED <<req, obj, member, ret, caught, lookups, calls, stringified, uncaught>>

\* Lines 31-35 without the return: the script goes on after the 500.
CatchNoReturn ==
    /\ pc = "L32"
    /\ log' = Append(log, <<String(caught)>>)
    /\ sent' = Append(sent, ResStatusSend(500, <<String(caught)>>))
    /\ trace' = trace \o <<"logError", "send">>
    /\ pc' = "L45"
    /\ UNCHANGED <<req, obj, member, ret, caught, lookups, calls, stringified, uncaught>>

\* Lines 31-35: the catch block.
Catch ==
    /\ pc = "L32"
    /\ log' = Append(log, <<String(caught)>>)
    /\ sent' = Append(sent, ResStatusSend(500, <<String(caught)>>))
    /\ trace' = trace \o <<"logError", "send">>
    /\ pc' = "returned"
    /\ UNCHANGED <<req, obj, member, ret, caught, lookups, calls, stringified, uncaught>>

\* Line 45: api.log('Return value ' + JSON.stringify(ret, replacer)).
LogReturn ==
    /\ pc = "L45"
    /\ stringified' = stringified + 1
    /\ log' = Append(log, <<"Return value ">> \o Concat(JSON_stringify(ret, TRUE)))
    /\ trace' = trace \o <<"stringify", "logReturn">>
    /\ pc' = "L46"
    /\ UNCHANGED <<req, obj, member, ret, caught, lookups, calls, sent, uncaught>>

\* Lines 46-51: the response for a result.  ret !== null is true of
\* undefined, and res.send of the undefined JSON.stringify sends no body.
Respond ==
    /\ pc = "L46"
    /\ IF ret # Null
       THEN /\ stringified' = stringified + 1
            /\ sent' = Append(sent, ResStatusSend(201, JSON_stringify(ret, TRUE)))
            /\ trace' = trace \o <<"stringify", "send">>
       ELSE /\ sent' = Append(sent, ResSend(400))
            /\ trace' = Append(trace, "send")
            /\ UNCHANGED stringified
    /\ pc' = "end"
    /\ UNCHANGED <<req, obj, member, ret, caught, log, lookups, calls, uncaught>>

Next ==
    \/ AuthGate
    \/ LogExecuting
    \/ Resolve
    \/ ReadMember
    \/ Invoke
    \/ Catch
    \/ LogReturn
    \/ Respond

Spec == Init /\ [][Next]_vars

(***************************************************************************)
(* Vocabulary of the properties.                                           *)
(***************************************************************************)
\* The request passed the token check.
Authenticated == req.pythonClientToken = LabelValue

\* The script has ended: by a return, at its last line, or by an exception.
Terminated == pc \in {"returned", "end", "uncaught"}

\* Every occurrence of event a in the trace precedes every occurrence of b.
Before(a, b) ==
    \A j \in 1..Len(trace) : trace[j] = b => \A i \in j..Len(trace) : trace[i] # a

Occurrences(a) == Cardinality({i \in 1..Len(trace) : trace[i] = a})

\* Decoding of a JSON text (the client's side of the round trip), by
\* recursive descent over the tokens; ParseValue gives the value that starts
\* at token i and the index after it.  An empty body decodes to nothing.
StringAtoms == Keys \cup {"A"}

Unquote(tok) == CHOOSE s \in StringAtoms : Quote(s) = tok

RECURSIVE ParseValue(_, _), ParseMembers(_, _, _), ParseElements(_, _, _)
ParseValue(t, i) ==
    CASE t[i] = "null" -> [v |-> Null, n |-> i + 1]
      [] t[i] = "{" ->
            IF t[i + 1] = "}" THEN [v |-> Obj(<<>>), n |-> i + 2]
            ELSE ParseMembers(t, i + 1, <<>>)
      [] t[i] = "[" ->
            IF t[i + 1] = "]" THEN [v |-> Arr(<<>>), n |-> i + 2]
            ELSE ParseElements(t, i + 1, <<>>)
      [] t[i] \in {Quote(s) : s \in StringAtoms} -> [v |-> Str(Unquote(t[i])), n |-> i + 1]
      [] OTHER -> [v |-> Num(t[i]), n |-> i + 1]

ParseMembers(t, i, acc) ==
    LET r == ParseValue(t, i + 2)
        members == Append(acc, [k |-> Unquote(t[i]), v |-> r.v])
    IN  IF t[r.n] = ","
        THEN ParseMembers(t, r.n + 1, members)
        ELSE [v |-> Obj(members), n |-> r.n + 1]

ParseElements(t, i, acc) ==
    LET r == ParseValue(t, i)
        elems == Append(acc, r.v)
    IN  IF t[r.n] = ","
        THEN ParseElements(t, r.n + 1, elems)
        ELSE [v |-> Arr(elems), n |-> r.n + 1]

JSON_parse(t) == IF t = <<>> THEN Undefined ELSE ParseValue(t, 1).v

\* A value JSON can carry: no undefined and no function anywhere in it.
RECURSIVE JSONSafe(_)
JSONSafe(v) ==
    /\ v.t \in {"null", "string", "number", "object", "array"}
    /\ \A i \in 1..Len(v.kids) : JSONSafe(v.kids[i].v)

\* The value has a member named children or parents somewhere in it.
RECURSIVE HasFilteredKey(_)
HasFilteredKey(v) ==
    \E i \in 1..Len(v.kids) :
        \/ v.t = "object" /\ v.kids[i].k \in {"children", "parents"}
        \/ HasFilteredKey(v.kids[i].v)

\* The value without its members named children or parents, at every depth.
RECURSIVE Pruned(_)
Pruned(v) ==
    LET keep == SelectSeq(v.kids, LAMBDA m : v.t # "object" \/ m.k \notin {"children", "parents"})
    IN  [v EXCEPT !.kids = [i \in 1..Len(keep) |-> [k |-> keep[i].k, v |-> Pruned(keep[i].v)]]]

\* A JSON text names the key: the quoted key is followed by a colon.
TextHasKey(text, key) ==
    \E i \in 1..(Len(text) - 1) : text[i] = Quote(key) /\ text[i + 1] = ":"

(***************************************************************************)
(* Properties.                                                             *)
(***************************************************************************)
\* C1: a request whose token differs from the label's value is answered 401
\* with no body, and nothing else happens for it: no lookup, no member read
\* or call, no log entry, no serialisation.
C1_UnauthorizedShortCircuits ==
    (~Authenticated /\ pc # "L6") =>
        /\ pc = "returned"
        /\ sent = <<[status |-> 401, body |-> <<>>]>>
        /\ lookups = <<>> /\ calls = <<>> /\ log = <<>> /\ stringified = 0
        /\ obj = Undefined /\ member = Undefined /\ ret = Undefined
        /\ trace = <<"auth", "send">>

C1_Witness ==
    /\ pc = "returned"
    /\ req.pythonClientToken = Str("wrong")
    /\ req.objtype = Str("note") /\ req.objid = Str("N1")
    /\ sent = <<[status |-> 401, body |-> <<>>]>>

\* C2: an authenticated request whose result is null or absent (undefined)
\* is answered 400 with no body, and no 201 is sent.  The script breaks it
\* for undefined: line 46 tests ret !== null.
C2_NullOrAbsentIs400 ==
    (Authenticated /\ pc = "end" /\ ret \in {Null, Undefined}) =>
        sent = <<[status |-> 400, body |-> <<>>]>>

\* C3: no failure escapes the script; an authenticated request always ends
\* in one of the responses 500, 400, 201.  The script breaks it when the
\* target object is null or undefined: line 25 is outside the try block.
C3_NoFailureEscapes ==
    (Authenticated /\ Terminated) =>
        /\ pc # "uncaught"
        /\ Len(sent) = 1
        /\ sent[1].status \in {500, 400, 201}

\* C4: when the called member throws, the response is 500, its body is the
\* string form of what was thrown, and the result is never serialised.
C4_ThrowIs500 ==
    (Len(calls) = 1 /\ calls[1].threw) =>
        /\ stringified = 0
        /\ pc \in {"L32", "returned"}
        /\ pc = "returned" =>
              /\ Len(sent) = 1
              /\ sent[1].status = 500
              /\ sent[1].body = <<String(calls[1].outcome)>>

C4_Witness ==
    /\ pc = "returned"
    /\ Len(calls) = 1 /\ calls[1].threw
    /\ calls[1].outcome = ErrorObj("TypeError", "x is not a function")
    /\ sent = <<[status |-> 500, body |-> <<"TypeError: x is not a function">>]>>

\* C5: the target is getNote(objid) for 'note', getBranch(objid) for
\* 'branch', getAttribute(objid) for 'attribute', each with exactly one
\* lookup; api.sql for 'sql' and api for anything else, with no lookup.
C5_ResolverMapping ==
    (pc \notin {"L6", "L11", "L14"} /\ Authenticated) =>
        CASE req.objtype = Str("note") ->
                /\ lookups = <<[fn |-> "getNote", id |-> req.objid]>>
                /\ obj \in {Entity("note", req.objid), Null, Undefined}
          [] req.objtype = Str("branch") ->
                /\ lookups = <<[fn |-> "getBranch", id |-> req.objid]>>
                /\ obj \in {Entity("branch", req.objid), Null, Undefined}
          [] req.objtype = Str("attribute") ->
                /\ lookups = <<[fn |-> "getAttribute", id |-> req.objid]>>
                /\ obj \in {Entity("attribute", req.objid), Null, Undefined}
          [] req.objtype = Str("sql") -> lookups = <<>> /\ obj = ApiSql
          [] OTHER -> lookups = <<>> /\ obj = Api

C5_Witness ==
    /\ pc = "L25"
    /\ req.objtype = Str("branch") /\ req.objid = Str("N1")
    /\ obj = Entity("branch", Str("N1"))
    /\ lookups = <<[fn |-> "getBranch", id |-> Str("N1")]>>

\* C6: the body of a 201 response names no key children or parents, at any
\* depth, and for a JSON value it decodes to the result with exactly those
\* members removed: every other key is there with its value.
C6_FilteredKeysOmitted ==
    \A i \in 1..Len(sent) :
        sent[i].status = 201 =>
            /\ ~TextHasKey(sent[i].body, "children")
            /\ ~TextHasKey(sent[i].body, "parents")
            /\ JSONSafe(ret) => JSON_parse(sent[i].body) = Pruned(ret)

C6_Witness ==
    /\ pc = "end"
    /\ ret = Obj(<<[k |-> "title", v |-> Obj(<<[k |-> "parents", v |-> Str("A")]>>)]>>)
    /\ sent = <<[status |-> 201, body |-> <<"{", "\"title\"", ":", "{", "}", "}">>]>>

\* C7: round trip: a JSON value with no children or parents key anywhere in
\* it is what the body of the 201 response decodes to.
C7_RoundTrip ==
    (pc = "end" /\ JSONSafe(ret) /\ ~HasFilteredKey(ret) /\ ret # Null) =>
        /\ Len(sent) = 1
        /\ sent[1].status = 201
        /\ JSON_parse(sent[1].body) = ret

C7_Witness ==
    /\ pc = "end"
    /\ ret = Obj(<<[k |-> "title", v |-> Arr(<<Str("A")>>)]>>)
    /\ sent = <<[status |-> 201, body |-> <<"{", "\"title\"", ":", "[", "\"A\"", "]", "}">>]>>

\* C8: a function member is called exactly once, with the target object as
\* receiver and the request's args in their order, and what it returns is
\* the result; a member that is no function is the result itself and
\* nothing is called.
C8_Invoker ==
    (pc \in {"L45", "L46", "end"}) =>
        IF IsFunction(member)
        THEN /\ Len(calls) = 1
             /\ calls[1].fn = member
             /\ calls[1].receiver = obj
             /\ Len(calls[1].args) = Len(req.args.kids)
             /\ \A i \in 1..Len(calls[1].args) : calls[1].args[i] = req.args.kids[i].v
             /\ ~calls[1].threw
             /\ ret = calls[1].outcome
        ELSE calls = <<>> /\ ret = member

C8_Witness ==
    /\ pc = "end"
    /\ req.objtype = Str("note")
    /\ member = Fn("getTitle")
    /\ calls = <<[fn |-> Fn("getTitle"), receiver |-> Entity("note", Str("N1")),
                 args |-> <<Str("A"), Num("1")>>, threw |-> FALSE, outcome |-> Str("A")]>>
    /\ ret = Str("A")

\* C9: the steps of a request come in the order token check, target
\* selection, member read and call, serialisation, response; none of them
\* is taken twice, at most one response is sent, and nothing follows it.
C9_StepOrder ==
    /\ trace # <<>> => trace[1] = "auth"
    /\ Before("auth", "resolve") /\ Before("resolve", "read")
    /\ Before("read", "call") /\ Before("resolve", "call")
    /\ Before("call", "stringify") /\ Before("read", "stringify")
    /\ \A e \in {"auth", "resolve", "read", "call", "send"} : Occurrences(e) <= 1
    /\ Len(sent) = Occurrences("send")
    /\ \A i \in 1..Len(trace) : trace[i] = "send" => i = Len(trace)
    /\ sent # <<>> => Terminated

C9_Witness ==
    /\ pc = "end"
    /\ trace = <<"auth", "logExecuting", "resolve", "read", "call",
                 "stringify", "logReturn", "stringify", "send">>

\* C10: for an authenticated request the attempt (kind, id, method, args)
\* is logged before the member is read or called, and the outcome (the
\* returned value or the error) is logged before the response is sent,
\* whether the response is 201, 400 or 500.
C10_LoggedBeforeResponse ==
    Authenticated =>
        /\ \A j \in 1..Len(trace) :
              trace[j] \in {"read", "call"} => \E i \in 1..(j - 1) : trace[i] = "logExecuting"
        /\ log # <<>> =>
              /\ SubSeq(log[1], 1, 7) =
                    <<"Executing ", String(req.objtype), "(", String(req.objid), ").",
                      req.methodName, "(">>
              /\ req.args.t = "array" =>
                    JSON_parse(SubSeq(log[1], 8, Len(log[1]) - 1)) = req.args
        /\ \A j \in 1..Len(trace) :
              trace[j] = "send" =>
                  /\ \E i \in 1..(j - 1) : trace[i] \in {"logReturn", "logError"}
                  /\ Len(log) = 2
                  /\ sent[1].status \in {201, 400, 500}
                  /\ sent[1].status = 500 => log[2] = <<String(caught)>>
                  /\ sent[1].status \in {201, 400} =>
                        /\ log[2][1] = "Return value "
                        /\ JSONSafe(ret) => JSON_parse(Tail(log[2])) = Pruned(ret)

C10_Witness ==
    /\ pc = "returned"
    /\ Authenticated
    /\ trace = <<"auth", "logExecuting", "resolve", "read", "call", "throw",
                 "logError", "send">>
    /\ log[2] = <<"boom">>
    /\ sent = <<[status |-> 500, body |-> <<"boom">>]>>
====
